---- MODULE Spec2Model ----
(***************************************************************************)
(* Model of template_setup.py: the Folder class (validation of the folder  *)
(* name, the root override, the folder_path property, create_folder) and   *)
(* create_project, run against a filesystem made of a set of directories   *)
(* and a map from file paths to contents.                                  *)
(*                                                                         *)
(* A Python str is a sequence of atoms.  Folder names are sequences of     *)
(* one-character strings, so that 'in', capitalize() and '/'.join() are    *)
(* computed character by character.  String literals of the source that    *)
(* are only ever concatenated ('README_', '.md', 'Folder path: ', the      *)
(* README bodies) are single atoms.                                        *)
(***************************************************************************)
EXTENDS Integers, Sequences, FiniteSets, TLC

VARIABLES
    heap,      \* the Folder objects the running caller holds, in construction order
    locals,    \* create_project's local variables: name -> index into heap, 0 = unbound
    prog,      \* the order of execution: indices into Statements
    status,    \* of create_project: "idle", "running", "done" (returned) or "raised"
    pc,        \* while running: the index in prog of the statement to execute next
    minimal,   \* the argument of the running call of create_project
    run,       \* number of calls of create_project started so far
    dirs,      \* filesystem: the set of directory paths that exist
    files,     \* filesystem: file path -> content
    stdout,    \* what the running call has printed
    exc,       \* the exception that left the last call, "none" if it returned
    prev,      \* the argument and the filesystem at the start of the running call
    last       \* the arguments and the outcome of the latest Folder(...) call

vars == <<heap, locals, prog, status, pc, minimal, run, dirs, files, stdout, exc, prev, last>>

\* ------------------------------------------------------------------ bounds

\* calls of create_project in one behaviour
MaxRuns == 2
\* Folder objects a free caller of the class constructs
MaxObjects == 3
\* how many of create_project's Folder statements after the root are permuted
PermLen == 4

\* ------------------------------------------------------- Python str helpers

PyNone == <<"<None>">>

\* the backquote character of line 65 (the character itself cannot be written here)
Backtick == "<backquote>"

LowerCase == <<"a","b","c","d","e","f","g","h","i","j","k","l","m",
               "n","o","p","q","r","s","t","u","v","w","x","y","z">>
UpperCase == <<"A","B","C","D","E","F","G","H","I","J","K","L","M",
               "N","O","P","Q","R","S","T","U","V","W","X","Y","Z">>

\* str.upper() / str.lower() of one character
upper_char(c) ==
    IF \E i \in 1..Len(LowerCase) : LowerCase[i] = c
    THEN UpperCase[CHOOSE i \in 1..Len(LowerCase) : LowerCase[i] = c]
    ELSE c

lower_char(c) ==
    IF \E i \in 1..Len(UpperCase) : UpperCase[i] = c
    THEN LowerCase[CHOOSE i \in 1..Len(UpperCase) : UpperCase[i] = c]
    ELSE c

\* str.capitalize(): first character upper-cased, the rest lower-cased
capitalize(s) ==
    [i \in 1..Len(s) |-> IF i = 1 THEN upper_char(s[i]) ELSE lower_char(s[i])]

\* str.lower()
lower(s) == [i \in 1..Len(s) |-> lower_char(s[i])]

\* Python's 'sub in s' for strings
contains(s, sub) ==
    \E i \in 1..(Len(s) - Len(sub) + 1) : SubSeq(s, i, i + Len(sub) - 1) = sub

\* list.reverse()
reverse(l) == [i \in 1..Len(l) |-> l[Len(l) + 1 - i]]

\* sep.join(l)
RECURSIVE join(_, _)
join(sep, l) ==
    IF l = <<>> THEN <<>>
    ELSE IF Len(l) = 1 THEN l[1]
    ELSE l[1] \o sep \o join(sep, Tail(l))

\* wrap(target, wrapping_str)
wrap(target, wrapping_str) == join(<<>>, <<wrapping_str, target, wrapping_str>>)

\* ------------------------------------------------------------ validation

reserved_chars == <<"<", ">", ":", "\"", "/", "\\", "|", "?", "*">>

Digits == <<"1","2","3","4","5","6","7","8","9">>

reserved_names ==
    << <<"C","O","N">>, <<"P","R","N">>, <<"A","U","X">> >>
    \o [i \in 1..9 |-> <<"C","O","M">> \o <<Digits[i]>>]
    \o [i \in 1..9 |-> <<"L","P","T">> \o <<Digits[i]>>]

\* line 22: any([reserved_chars[i] in folder_name ...])
has_reserved_char(folder_name) ==
    \E i \in 1..Len(reserved_chars) : contains(folder_name, <<reserved_chars[i]>>)

\* line 24: any([reserved_names[i] in folder_name ...])
has_reserved_name(folder_name) ==
    \E i \in 1..Len(reserved_names) : contains(folder_name, reserved_names[i])

\* The body of the try block, lines 19-28: the exception it raises, or "none".
try_block(folder_name) ==
    IF has_reserved_char(folder_name) THEN "ReservedCharError"
    ELSE IF has_reserved_name(folder_name) THEN "ReservedNameError"
    ELSE "none"

\* err.args of Exception(msg) is the tuple (msg,); the handler compares it with a str.
err_args(msg) == [type |-> "tuple", items |-> <<msg>>]
py_str(s) == [type |-> "str", items |-> <<s>>]

\* The except block, lines 29-38: the line it prints (every branch then returns).
except_block(err) ==
    IF err_args(err) = py_str("ReservedCharError")
    THEN <<"A reserved character was used. Initialization Failed">>
    ELSE IF err_args(err) = py_str("ReservedNameError")
    THEN <<"A reserved name was used. Initialization Failed">>
    ELSE <<"Other unexpected error occurred", err>>

\* ---------------------------------------------------------- the filesystem

\* os.path.dirname of a path; a path without '/' lives in the working directory
dirname(path) ==
    IF \E i \in 1..Len(path) : path[i] = "/"
    THEN LET k == CHOOSE i \in 1..Len(path) :
                      /\ path[i] = "/"
                      /\ \A j \in (i+1)..Len(path) : path[j] # "/"
         IN  SubSeq(path, 1, k - 1)
    ELSE <<".">>

\* os.mkdir(path) on directories d and files f.  fault = "mkdir" is a failure of
\* the call for a reason other than the ones below (permissions, disk full).
os_mkdir(path, d, f, fault) ==
    IF fault = "mkdir" THEN [exc |-> "OSError", dirs |-> d]
    ELSE IF path \in d \/ path \in DOMAIN f THEN [exc |-> "FileExistsError", dirs |-> d]
    ELSE IF dirname(path) \notin d THEN [exc |-> "FileNotFoundError", dirs |-> d]
    ELSE [exc |-> "none", dirs |-> d \cup {path}]

\* open(path, 'w'): creates or truncates the file
open_w(path, d, f, fault) ==
    IF fault = "open" THEN [exc |-> "OSError", files |-> f]
    ELSE IF path \in d THEN [exc |-> "IsADirectoryError", files |-> f]
    ELSE IF dirname(path) \notin d THEN [exc |-> "FileNotFoundError", files |-> f]
    ELSE [exc |-> "none", files |-> (path :> <<>>) @@ f]

\* f.write(text) on an open file
write(path, text, f) == (path :> (f[path] \o text)) @@ f

\* -------------------------------------------------------------- class Folder

\* The while loop of folder_path, lines 48-51.  Reading folder_name of an object
\* whose __init__ returned early raises AttributeError.
RECURSIVE walk(_, _, _)
walk(path, folder_parent, h) ==
    IF folder_parent = 0 THEN [exc |-> "none", path |-> path]
    ELSE IF ~h[folder_parent].has_name THEN [exc |-> "AttributeError", path |-> path]
    ELSE walk(Append(path, h[folder_parent].folder_name), h[folder_parent].parent, h)

\* mutant: the list is not reversed before it is joined
folder_path_not_reversed(self, h) ==
    IF ~self.has_name THEN [exc |-> "AttributeError", path |-> <<>>]
    ELSE LET w == walk(<<self.folder_name>>, self.parent, h)
         IN  [exc |-> w.exc, path |-> join(<<"/">>, w.path)]

\* mutant: the walk stops below the root, whose name is left out
folder_path_without_root(self, h) ==
    IF ~self.has_name THEN [exc |-> "AttributeError", path |-> <<>>]
    ELSE LET w == walk(<<self.folder_name>>, self.parent, h)
             names == reverse(w.path)
         IN  [exc |-> w.exc,
              path |-> join(<<"/">>, IF Len(names) > 1 THEN Tail(names) ELSE names)]

\* Folder.folder_path, lines 42-54
folder_path(self, h) ==
    IF ~self.has_name THEN [exc |-> "AttributeError", path |-> <<>>]
    ELSE LET w == walk(<<self.folder_name>>, self.parent, h)
         IN  [exc |-> w.exc, path |-> join(<<"/">>, reverse(w.path))]

\* the README's file name, line 63
readme_path(self, path) ==
    path \o <<"/", "README_">> \o capitalize(self.folder_name) \o <<".md">>

\* the three writes, lines 64-66
readme_content(self, path) ==
    (<<"##">> \o wrap(capitalize(self.folder_name), <<"**">>) \o <<"\n\n">>)
    \o (<<"Folder path: ">> \o wrap(path, <<Backtick>>) \o <<"\n\n">>)
    \o self.readme_text

\* lines 61-66, after the directory is there: the README
write_readme(self, path, d, f, out, fault) ==
    IF self.readme_text = PyNone
    THEN [exc |-> "none", dirs |-> d, files |-> f, out |-> out]
    ELSE LET o == open_w(readme_path(self, path), d, f, fault)
         IN  IF o.exc # "none"
             THEN [exc |-> o.exc, dirs |-> d, files |-> f, out |-> out]
             ELSE [exc |-> "none", dirs |-> d,
                   files |-> write(readme_path(self, path),
                                   readme_content(self, path), o.files),
                   out |-> out]

\* mutant: FileExistsError is not caught
create_folder_exists_fatal(self, h, d, f, fault) ==
    LET p == folder_path(self, h)
        m == os_mkdir(p.path, d, f, fault)
    IN  IF p.exc # "none" THEN [exc |-> p.exc, dirs |-> d, files |-> f, out |-> <<>>]
        ELSE IF m.exc # "none" THEN [exc |-> m.exc, dirs |-> d, files |-> f, out |-> <<>>]
        ELSE write_readme(self, p.path, m.dirs, f, <<>>, fault)

\* mutant: the handler catches every OSError, not only FileExistsError
create_folder_catch_all(self, h, d, f, fault) ==
    LET p == folder_path(self, h)
        m == os_mkdir(p.path, d, f, fault)
    IN  IF p.exc # "none" THEN [exc |-> p.exc, dirs |-> d, files |-> f, out |-> <<>>]
        ELSE IF m.exc # "none"
        THEN write_readme(self, p.path, m.dirs, f, << <<m.exc, p.path>> >>, "none")
        ELSE write_readme(self, p.path, m.dirs, f, <<>>, fault)

\* Folder.create_folder, lines 56-66: the exception that leaves it ("none" if it
\* returns), the filesystem afterwards and the lines printed.
create_folder(self, h, d, f, fault) ==
    LET p == folder_path(self, h)
        m == os_mkdir(p.path, d, f, fault)
    IN  IF p.exc # "none" THEN [exc |-> p.exc, dirs |-> d, files |-> f, out |-> <<>>]
        ELSE IF m.exc = "FileExistsError"
        THEN write_readme(self, p.path, m.dirs, f, << <<m.exc, p.path>> >>, fault)
        ELSE IF m.exc # "none" THEN [exc |-> m.exc, dirs |-> d, files |-> f, out |-> <<>>]
        ELSE write_readme(self, p.path, m.dirs, f, <<>>, fault)

\* the object as __init__ leaves it when the try block raised: parent and
\* readme_text are set (lines 16-17), folder_name never is
unnamed(parent, readme_text) ==
    [folder_name |-> <<>>, has_name |-> FALSE, parent |-> parent, readme_text |-> readme_text]

\* the object after lines 26-28
named(folder_name, parent, readme_text) ==
    [folder_name |-> IF parent = 0 THEN <<".">> ELSE folder_name,
     has_name |-> TRUE, parent |-> parent, readme_text |-> readme_text]

\* Folder.__init__, lines 15-40.  parent is an index into h, 0 for None.
\* exc is the exception that leaves the constructor ("none": the caller gets obj).
Folder_init(folder_name, parent, readme_text, h, d, f, fault) ==
    LET err == try_block(folder_name)
        self == named(folder_name, parent, readme_text)
    IN  IF err # "none"
        THEN [exc |-> "none", obj |-> unnamed(parent, readme_text),
              dirs |-> d, files |-> f, out |-> <<except_block(err)>>]
        ELSE IF parent # 0
        THEN LET c == create_folder(self, h, d, f, fault)
             IN  [exc |-> c.exc, obj |-> self, dirs |-> c.dirs, files |-> c.files, out |-> c.out]
        ELSE [exc |-> "none", obj |-> self, dirs |-> d, files |-> f, out |-> <<>>]

\* ----------------------------------------------------------- create_project

\* One statement  var = Folder(folder_name, parent, readme_text)  of create_project;
\* parent is the name of a local variable, or "None".  The README bodies, string
\* literals of the source that are only written out, are one atom each.
Stmt(var, folder_name, parent, readme_text) ==
    [kind |-> "Folder", var |-> var, folder_name |-> folder_name,
     parent |-> parent, readme_text |-> readme_text]

\* lines 105-106
if_minimal_return ==
    [kind |-> "if_minimal_return", var |-> "", folder_name |-> <<>>,
     parent |-> "None", readme_text |-> PyNone]

\* mutant: the second 'modeling' is declared under src, like the first
Statements_modeling_twice_in_src ==
    <<
       Stmt("root", <<"r","o","o","t">>,
            "None", PyNone),
       Stmt("data", <<"d","a","t","a">>,
            "root", <<"README text of data">>),
       Stmt("raw", <<"r","a","w">>,
            "data", <<"README text of raw">>),
       Stmt("processed", <<"p","r","o","c","e","s","s","e","d">>,
            "data", <<"README text of processed">>),
       Stmt("src", <<"s","r","c">>,
            "root", <<"README text of src">>),
       Stmt("preparation", <<"p","r","e","p","a","r","a","t","i","o","n">>,
            "src", <<"README text of preparation">>),
       Stmt("processing", <<"p","r","o","c","e","s","s","i","n","g">>,
            "src", <<"README text of processing">>),
       Stmt("modeling", <<"m","o","d","e","l","i","n","g">>,
            "src", <<"README text of modeling (src)">>),
       Stmt("visualize", <<"v","i","s","u","a","l","i","z","e">>,
            "src", <<"README text of visualize">>),
       if_minimal_return,
       Stmt("test", <<"t","e","s","t">>,
            "root", <<"README text of test">>),
       Stmt("model", <<"m","o","d","e","l">>,
            "root", <<"README text of model">>),
       Stmt("notebook", <<"n","o","t","e","b","o","o","k">>,
            "root", <<"README text of notebook">>),
       Stmt("eda", <<"e","d","a">>,
            "notebook", <<"README text of eda">>),
       Stmt("evaluation", <<"e","v","a","l","u","a","t","i","o","n">>,
            "notebook", <<"README text of evaluation">>),
       Stmt("modeling", <<"m","o","d","e","l","i","n","g">>,
            "src", <<"README text of modeling (notebook)">>),
       Stmt("poc", <<"p","o","c">>,
            "notebook", <<"README text of poc">>),
       Stmt("doc", <<"d","o","c">>,
            "root", <<"README text of doc">>),
       Stmt("profiling", <<"p","r","o","f","i","l","i","n","g">>,
            "root", <<"README text of profiling">>),
       Stmt("logs", <<"l","o","g","s">>,
            "root", <<"README text of logs">>),
       Stmt("reports", <<"r","e","p","o","r","t","s">>,
            "root", <<"README text of reports">>)
    >>

\* the body of create_project, lines 75-126, in the order of the source
Statements ==
    <<
       Stmt("root", <<"r","o","o","t">>,
            "None", PyNone),
       Stmt("data", <<"d","a","t","a">>,
            "root", <<"README text of data">>),
       Stmt("raw", <<"r","a","w">>,
            "data", <<"README text of raw">>),
       Stmt("processed", <<"p","r","o","c","e","s","s","e","d">>,
            "data", <<"README text of processed">>),
       Stmt("src", <<"s","r","c">>,
            "root", <<"README text of src">>),
       Stmt("preparation", <<"p","r","e","p","a","r","a","t","i","o","n">>,
            "src", <<"README text of preparation">>),
       Stmt("processing", <<"p","r","o","c","e","s","s","i","n","g">>,
            "src", <<"README text of processing">>),
       Stmt("modeling", <<"m","o","d","e","l","i","n","g">>,
            "src", <<"README text of modeling (src)">>),
       Stmt("visualize", <<"v","i","s","u","a","l","i","z","e">>,
            "src", <<"README text of visualize">>),
       if_minimal_return,
       Stmt("test", <<"t","e","s","t">>,
            "root", <<"README text of test">>),
       Stmt("model", <<"m","o","d","e","l">>,
            "root", <<"README text of model">>),
       Stmt("notebook", <<"n","o","t","e","b","o","o","k">>,
            "root", <<"README text of notebook">>),
       Stmt("eda", <<"e","d","a">>,
            "notebook", <<"README text of eda">>),
       Stmt("evaluation", <<"e","v","a","l","u","a","t","i","o","n">>,
            "notebook", <<"README text of evaluation">>),
       Stmt("modeling", <<"m","o","d","e","l","i","n","g">>,
            "notebook", <<"README text of modeling (notebook)">>),
       Stmt("poc", <<"p","o","c">>,
            "notebook", <<"README text of poc">>),
       Stmt("doc", <<"d","o","c">>,
            "root", <<"README text of doc">>),
       Stmt("profiling", <<"p","r","o","f","i","l","i","n","g">>,
            "root", <<"README text of profiling">>),
       Stmt("logs", <<"l","o","g","s">>,
            "root", <<"README text of logs">>),
       Stmt("reports", <<"r","e","p","o","r","t","s">>,
            "root", <<"README text of reports">>)
    >>

\* the local variables of create_project
LocalNames == {Statements[i].var : i \in {j \in 1..Len(Statements) : Statements[j].kind = "Folder"}}

\* ------------------------------------------------------------ state machine

\* The project directory before the first call: empty, or holding a directory
\* left by earlier work.
InitialDirs ==
    { {<<".">>},
      {<<".">>, <<".","/","d","a","t","a">>},
      {<<".">>, <<".","/","d","o","c">>} }

NoCall ==
    [called |-> FALSE, folder_name |-> <<>>, parent |-> 0, readme_text |-> PyNone,
     fault |-> "none", exc |-> "none", obj |-> unnamed(0, PyNone),
     dirs_before |-> {}, files_before |-> <<>>]

\* A call Folder(folder_name, parent, readme_text): its arguments, the system call
\* that failed during it, the exception that left it, the object, and the
\* filesystem it started from.
Call(folder_name, parent, readme_text, fault, r) ==
    [called |-> TRUE, folder_name |-> folder_name, parent |-> parent,
     readme_text |-> readme_text, fault |-> fault, exc |-> r.exc, obj |-> r.obj,
     dirs_before |-> dirs, files_before |-> files]

\* the statement executed at position i
StmtAt(i) == Statements[prog[i]]

InitProg(p) ==
    /\ heap = <<>>
    /\ locals = [v \in LocalNames |-> 0]
    /\ prog = p
    /\ status = "idle"
    /\ pc = 0
    /\ minimal = FALSE
    /\ run = 0
    /\ dirs \in InitialDirs
    /\ files = <<>>
    /\ stdout = <<>>
    /\ exc = "none"
    /\ prev = [run |-> 0, minimal |-> FALSE, dirs |-> {}, files |-> <<>>]
    /\ last = NoCall

\* the order of the source
SourceOrder == [i \in 1..Len(Statements) |-> i]

Init == InitProg(SourceOrder)

\* create_project(m) is called: at first, or again after a call that returned.
CallCreateProject(m) ==
    /\ status \in {"idle", "done"}
    /\ run < MaxRuns
    /\ status' = "running"
    /\ pc' = 1
    /\ minimal' = m
    /\ run' = run + 1
    /\ heap' = <<>>
    /\ locals' = [v \in LocalNames |-> 0]
    /\ stdout' = <<>>
    /\ exc' = "none"
    /\ prev' = [run |-> run, minimal |-> minimal, dirs |-> dirs, files |-> files]
    /\ last' = NoCall
    /\ UNCHANGED <<prog, dirs, files>>

\* One statement  var = Folder(...)  of create_project.  Reading a local that no
\* earlier statement bound raises UnboundLocalError; an exception that leaves the
\* constructor leaves create_project (no handler in lines 69-126).
ExecFolderStmt(fault) ==
    /\ status = "running"
    /\ pc \in 1..Len(prog)
    /\ StmtAt(pc).kind = "Folder"
    /\ LET s == StmtAt(pc)
       IN  IF s.parent # "None" /\ locals[s.parent] = 0
           THEN /\ status' = "raised"
                /\ exc' = "UnboundLocalError"
                /\ UNCHANGED <<heap, locals, pc, dirs, files, stdout, last>>
           ELSE LET parent == IF s.parent = "None" THEN 0 ELSE locals[s.parent]
                    r == Folder_init(s.folder_name, parent, s.readme_text,
                                     heap, dirs, files, fault)
                IN  /\ dirs' = r.dirs
                    /\ files' = r.files
                    /\ stdout' = stdout \o r.out
                    /\ exc' = r.exc
                    /\ last' = Call(s.folder_name, parent, s.readme_text, fault, r)
                    /\ IF r.exc # "none"
                       THEN /\ status' = "raised"
                            /\ UNCHANGED <<heap, locals, pc>>
                       ELSE /\ pc' = pc + 1
                            /\ status' = "running"
                            /\ heap' = Append(heap, r.obj)
                            /\ locals' = [locals EXCEPT ![s.var] = Len(heap) + 1]
    /\ UNCHANGED <<prog, minimal, run, prev>>

\* a statement of create_project when every system call does its work
ExecFolder == ExecFolderStmt("none")

\* a statement of create_project that reaches create_folder (line 39), during
\* which os.mkdir or open fails
ExecFolderFault ==
    /\ status = "running"
    /\ pc \in 1..Len(prog)
    /\ StmtAt(pc).parent # "None"
    /\ \E fault \in {"mkdir", "open"} : ExecFolderStmt(fault)

\* mutant: the minimal flag is not looked at
ExecIfMinimal_ignored ==
    /\ status = "running"
    /\ pc \in 1..Len(prog)
    /\ StmtAt(pc).kind = "if_minimal_return"
    /\ pc' = pc + 1
    /\ status' = "running"
    /\ UNCHANGED <<heap, locals, prog, minimal, run, dirs, files, stdout, exc, prev, last>>

\* lines 105-106: if minimal: return
ExecIfMinimal ==
    /\ status = "running"
    /\ pc \in 1..Len(prog)
    /\ StmtAt(pc).kind = "if_minimal_return"
    /\ status' = IF minimal THEN "done" ELSE "running"
    /\ pc' = IF minimal THEN pc ELSE pc + 1
    /\ UNCHANGED <<heap, locals, prog, minimal, run, dirs, files, stdout, exc, prev, last>>

\* create_project falls off its last statement
Return ==
    /\ status = "running"
    /\ pc = Len(prog) + 1
    /\ status' = "done"
    /\ pc' = pc
    /\ UNCHANGED <<heap, locals, prog, minimal, run, dirs, files, stdout, exc, prev, last>>

Next ==
    \/ \E m \in BOOLEAN : CallCreateProject(m)
    \/ ExecFolder
    \/ ExecIfMinimal
    \/ Return

\* create_project on a filesystem whose calls succeed or report 'already exists'
Spec == Init /\ [][Next]_vars

NextIO == Next \/ ExecFolderFault

\* create_project on a filesystem whose calls may also fail for other reasons
SpecIO == Init /\ [][NextIO]_vars

\* ------------------------------------------- a caller of the class Folder

\* Names a caller may pass: valid ones, names with a reserved character, and
\* reserved device names in several spellings.
Names ==
    { <<"s","r","c">>,
      <<"p","r","o","c","e","s","s","i","n","g">>,
      <<"a","<","b">>,
      <<"d","a","t","a","?">>,
      <<"C","O","N">>,
      <<"c","o","n">>,
      <<"A","u","x">>,
      <<"L","P","T","1">> }

Texts == {PyNone, <<"some README text">>}

\* A caller evaluates Folder(folder_name, parent, readme_text), parent being None
\* (0) or an object it holds, and keeps the object unless the constructor raised.
NewFolder(folder_name, parent, readme_text) ==
    /\ status = "idle"
    /\ Len(heap) < MaxObjects
    /\ LET r == Folder_init(folder_name, parent, readme_text, heap, dirs, files, "none")
       IN  /\ dirs' = r.dirs
           /\ files' = r.files
           /\ stdout' = stdout \o r.out
           /\ exc' = r.exc
           /\ last' = Call(folder_name, parent, readme_text, "none", r)
           /\ heap' = IF r.exc = "none" THEN Append(heap, r.obj) ELSE heap
    /\ UNCHANGED <<locals, prog, status, pc, minimal, run, prev>>

NextFolder ==
    \E folder_name \in Names, parent \in 0..Len(heap), readme_text \in Texts :
        NewFolder(folder_name, parent, readme_text)

\* any sequence of constructor calls
SpecFolder == Init /\ [][NextFolder]_vars

\* ------------------------------- create_project with its statements reordered

\* the permutations of 1..n
Orders(n) == {f \in [1..n -> 1..n] : \A i, j \in 1..n : f[i] = f[j] => i = j}

\* the order with the PermLen statements after  root = Folder(...)  reordered by f
Reordered(f) ==
    [i \in 1..Len(Statements) |->
        IF i \in 2..(PermLen + 1) THEN f[i - 1] + 1 ELSE i]

InitPerm == \E f \in Orders(PermLen) : InitProg(Reordered(f))

\* the same folder definitions, submitted in any order
SpecPerm == InitPerm /\ [][Next]_vars

\* ---------------------------------------------------------------- properties

\* the reserved device names, lower-cased, for a comparison that ignores case
ReservedNamesLower == {lower(reserved_names[i]) : i \in 1..Len(reserved_names)}

\* C1: every construction with a folder name that contains a reserved character
\* fails with an error reported to the caller, and creates no directory and no
\* README file.
C1_ReservedCharFails ==
    (last.called /\ has_reserved_char(last.folder_name))
        => /\ last.exc # "none"
           /\ dirs = last.dirs_before
           /\ files = last.files_before

\* C2: every Folder that was constructed and got a directory has a name without
\* reserved character that equals no reserved device name, whatever the case of
\* its letters.
C2_MaterializedNameValid ==
    \A i \in 1..Len(heap) :
        (heap[i].has_name /\ heap[i].parent # 0)
            => /\ ~has_reserved_char(heap[i].folder_name)
               /\ lower(heap[i].folder_name) \notin ReservedNamesLower

\* C3: whatever name is supplied, constructing a Folder with parent None yields a
\* node whose folder_name is '.', and only nodes without parent carry that name.
C3_RootNameOverridden ==
    /\ (last.called /\ last.parent = 0)
           => /\ last.exc = "none"
              /\ last.obj.has_name
              /\ last.obj.folder_name = <<".">>
    /\ \A i \in 1..Len(heap) :
           heap[i].has_name => (heap[i].parent = 0 <=> heap[i].folder_name = <<".">>)

\* C4: the folder_path of every constructed node is '.' for the root and
\* parent.folder_path + '/' + folder_name otherwise; the node declared as
\* processing under src under the root has the path './src/processing'.
C4_PathIsParentPathSlashName ==
    /\ \A i \in 1..Len(heap) :
           heap[i].has_name =>
               LET p == folder_path(heap[i], heap)
               IN  /\ p.exc = "none"
                   /\ IF heap[i].parent = 0
                      THEN p.path = <<".">>
                      ELSE p.path = folder_path(heap[heap[i].parent], heap).path
                                    \o <<"/">> \o heap[i].folder_name
    /\ locals["processing"] # 0 =>
           folder_path(heap[locals["processing"]], heap).path
               = <<".","/","s","r","c","/","p","r","o","c","e","s","s","i","n","g">>

\* C4's case: processing is constructed, three levels deep, and has its directory
C4_Witness ==
    /\ locals["processing"] # 0
    /\ heap[locals["processing"]].parent = locals["src"]
    /\ heap[locals["src"]].parent = locals["root"]
    /\ folder_path(heap[locals["processing"]], heap).path \in dirs

\* the directories of the minimal set
MinimalPaths ==
    { <<".","/","d","a","t","a">>,
      <<".","/","d","a","t","a","/","r","a","w">>,
      <<".","/","d","a","t","a","/","p","r","o","c","e","s","s","e","d">>,
      <<".","/","s","r","c">>,
      <<".","/","s","r","c","/","p","r","e","p","a","r","a","t","i","o","n">>,
      <<".","/","s","r","c","/","p","r","o","c","e","s","s","i","n","g">>,
      <<".","/","s","r","c","/","m","o","d","e","l","i","n","g">>,
      <<".","/","s","r","c","/","v","i","s","u","a","l","i","z","e">> }

\* the directories of the folders declared after the minimal set
NonMinimalPaths ==
    { <<".","/","t","e","s","t">>,
      <<".","/","m","o","d","e","l">>,
      <<".","/","n","o","t","e","b","o","o","k">>,
      <<".","/","n","o","t","e","b","o","o","k","/","e","d","a">>,
      <<".","/","n","o","t","e","b","o","o","k","/","e","v","a","l","u","a","t","i","o","n">>,
      <<".","/","n","o","t","e","b","o","o","k","/","m","o","d","e","l","i","n","g">>,
      <<".","/","n","o","t","e","b","o","o","k","/","p","o","c">>,
      <<".","/","d","o","c">>,
      <<".","/","p","r","o","f","i","l","i","n","g">>,
      <<".","/","l","o","g","s">>,
      <<".","/","r","e","p","o","r","t","s">> }

\* the paths of the objects held, and the files a state has that an earlier
\* filesystem f0 had not or had with another content
HeapPaths == {folder_path(heap[i], heap).path : i \in 1..Len(heap)}
Written(f0, f1) == {p \in DOMAIN f1 : p \notin DOMAIN f0 \/ f1[p] # f0[p]}

\* C5: a second create_project with the same argument, on the filesystem a
\* completed first one left, raises nothing, reports one 'already exists' per
\* folder and leaves directories, README files and their contents as they were.
C5_SecondRunIdempotent ==
    (run >= 2 /\ prev.minimal = minimal)
        => /\ status # "raised"
           /\ status = "done"
                => /\ dirs = prev.dirs
                   /\ files = prev.files
                   /\ Len(stdout) = Len(heap) - 1
                   /\ \A i \in 1..Len(stdout) : stdout[i][1] = "FileExistsError"

\* C5's case: the full project built twice; the second run reported 19 existing
\* directories and returned
C5_Witness ==
    /\ run = 2 /\ status = "done" /\ ~minimal /\ ~prev.minimal
    /\ Len(stdout) = 19
    /\ NonMinimalPaths \subseteq dirs

\* C6: with minimal = True only the eight folders of the minimal set are
\* constructed, and no step of the run creates a directory or writes a README
\* for another folder; with minimal = False every declared folder is constructed
\* and has its directory and README when the run returns.
C6_MinimalFiltering ==
    /\ [](minimal => HeapPaths \subseteq MinimalPaths \cup {<<".">>})
    /\ [][minimal' => /\ (dirs' \ dirs) \subseteq MinimalPaths
                      /\ \A p \in Written(files, files') : dirname(p) \in MinimalPaths]_vars
    /\ []((status = "done" /\ minimal)
            => /\ HeapPaths = MinimalPaths \cup {<<".">>}
               /\ MinimalPaths \subseteq dirs)
    /\ []((status = "done" /\ ~minimal)
            => /\ HeapPaths = MinimalPaths \cup NonMinimalPaths \cup {<<".">>}
               /\ \A p \in MinimalPaths \cup NonMinimalPaths :
                      /\ p \in dirs
                      /\ \E q \in DOMAIN files : dirname(q) = p)

\* C6's case: a minimal run returned on a project directory that was empty
C6_Witness ==
    /\ status = "done" /\ minimal /\ run = 1
    /\ dirs = MinimalPaths \cup {<<".">>}
    /\ Cardinality(DOMAIN files) = 8

\* C7: when create_project returns, the tree has 8 + 1 nodes with minimal = True
\* and 19 + 1 nodes with minimal = False, every node has its own path, and
\* 'modeling' is the name of two of them in the full tree.
C7_TreeSize ==
    status = "done"
        => /\ Len(heap) = IF minimal THEN 9 ELSE 20
           /\ \A i \in 1..Len(heap) : heap[i].has_name
           /\ Cardinality(HeapPaths) = Len(heap)

\* C7's case: the full tree, with both nodes named modeling
C7_Witness ==
    /\ status = "done" /\ ~minimal /\ Len(heap) = 20
    /\ Cardinality({i \in 1..Len(heap) :
                       heap[i].folder_name = <<"m","o","d","e","l","i","n","g">>}) = 2

\* The tree the folder definitions describe, resolved by name: each definition's
\* path under the path of the definition that binds its parent.
FolderStmts == {k \in 1..Len(Statements) : Statements[k].kind = "Folder"}
BinderOf(v) == CHOOSE k \in FolderStmts : Statements[k].var = v
IfMinimalAt == CHOOSE k \in 1..Len(Statements) : Statements[k].kind = "if_minimal_return"

RECURSIVE DeclaredPath(_)
DeclaredPath(k) ==
    IF Statements[k].parent = "None" THEN <<".">>
    ELSE DeclaredPath(BinderOf(Statements[k].parent))
         \o <<"/">> \o Statements[k].folder_name

DeclaredTree(m) ==
    { <<DeclaredPath(k),
        IF Statements[k].parent = "None" THEN <<>>
        ELSE DeclaredPath(BinderOf(Statements[k].parent))>> :
      k \in {j \in FolderStmts : ~m \/ j < IfMinimalAt} }

\* the tree built: every object's path with its parent's path
BuiltTree ==
    { <<folder_path(heap[i], heap).path,
        IF heap[i].parent = 0 THEN <<>>
        ELSE folder_path(heap[heap[i].parent], heap).path>> : i \in 1..Len(heap) }

\* C8: in whatever order the folder definitions are submitted, a child before
\* its parent included, the build ends with the same tree: the same parent/child
\* relationships and the same path for every folder.
C8_OrderIndependent ==
    status \in {"done", "raised"} => BuiltTree = DeclaredTree(minimal)

\* C9: a failure of os.mkdir or open other than 'already exists' leaves the
\* constructor and create_project as an exception; no object is bound for the
\* failing folder, nothing is constructed or created for a later one, and every
\* directory and README that was there before the failure is still there.
C9_FatalErrorStopsWithoutRollback ==
    (last.called /\ last.fault # "none")
        => /\ status = "raised"
           /\ exc = "OSError"
           /\ Len(heap) = Cardinality({k \in 1..(pc - 1) : StmtAt(k).kind = "Folder"})
           /\ last.dirs_before \subseteq dirs
           /\ \A p \in DOMAIN last.files_before :
                  p \in DOMAIN files /\ files[p] = last.files_before[p]
           /\ dirs \subseteq
                  prev.dirs \cup HeapPaths
                  \cup (IF last.fault = "open"
                        THEN {folder_path(last.obj, heap).path} ELSE {})
           /\ \A p \in DOMAIN files : dirname(p) \in prev.dirs \cup HeapPaths

\* C9's case: open failed for a folder after its directory was made; the
\* directory and the folders built before it are still there
C9_Witness ==
    /\ status = "raised" /\ last.fault = "open"
    /\ Len(heap) >= 3
    /\ dirs # last.dirs_before
    /\ DOMAIN files # {}

\* C10: a folder's directory and README are there before any of its children is
\* constructed: every directory a constructor call creates lies in a directory
\* that existed when the call began, and no call fails for a missing parent
\* directory.
C10_ParentBeforeChild ==
    /\ exc # "FileNotFoundError"
    /\ last.called =>
           \A p \in dirs \ last.dirs_before : dirname(p) \in last.dirs_before
    /\ \A i \in 1..Len(heap) :
           heap[i].parent # 0 =>
               /\ folder_path(heap[i], heap).path \in dirs
               /\ readme_path(heap[i], folder_path(heap[i], heap).path) \in DOMAIN files

\* C10's case: the directory of raw was just created inside the directory of data
C10_Witness ==
    /\ last.called /\ last.folder_name = <<"r","a","w">>
    /\ dirs \ last.dirs_before = {<<".","/","d","a","t","a","/","r","a","w">>}
    /\ <<".","/","d","a","t","a">> \in last.dirs_before

====
